---- MODULE Spec2Model ----
(***************************************************************************)
(* Model of main.py: the Cloud Function load_data_to_bigquery and its      *)
(* audit logger log_event_to_audit_table, together with the part of the    *)
(* warehouse they talk to (load jobs, destination tables, audit table).    *)
(*                                                                         *)
(* Python strings are sequences of one-character strings, so that split    *)
(* and replace are computed character by character.  Messages of faults    *)
(* and of job errors are sequences of tokens.                              *)
(***************************************************************************)
EXTENDS Naturals, Sequences, FiniteSets

VARIABLES
    PROJECT_ID,      \* os.getenv("PROJECT_ID"), None when unset
    DATASET_ID,      \* os.getenv("DATASET_ID"), None when unset
    AUDIT_TABLE_ID,  \* os.getenv("AUDIT_TABLE_ID"), None when unset
    pc,              \* per invocation: where load_data_to_bigquery stands
    event,           \* per invocation: the notification {bucket, name}
    table_ref,       \* per invocation: local table_ref
    uri,             \* per invocation: local uri
    event_metadata,  \* per invocation: local event_metadata dict
    load_job,        \* per invocation: the load job in the warehouse
    load_fault,      \* per invocation: the fault the try body raised, NoFault if none
    fault_site,      \* per invocation: the call of the try body that raised it
    raised,          \* per invocation: the exception in flight; at "done", what the caller observes
    audit_args,      \* per invocation: arguments of each log_event_to_audit_table call
    insert_calls,    \* the insert_rows_json calls made: table reference and row
    audit_table,     \* rows the audit table holds
    table,           \* destination tables: reference -> set of source URIs loaded
    commits,         \* invocations in the order their load jobs committed
    raced            \* a job committed while another job on the same table was running

vars == <<PROJECT_ID, DATASET_ID, AUDIT_TABLE_ID, pc, event, table_ref, uri,
          event_metadata, load_job, load_fault, fault_site, raised, audit_args, insert_calls,
          audit_table, table, commits, raced>>

envVars == <<PROJECT_ID, DATASET_ID, AUDIT_TABLE_ID>>

----------------------------------------------------------------------------
(* Bounds and input sets *)

\* Longest object name enumerated character by character.
MaxLen == 3

\* Characters of the enumerated object names.
Alphabet == {"a", "b", " ", "."}

\* The concurrent invocations of the handler.
Invocations == {1, 2}

\* Python's None.
None == <<"<None>">>

\* No exception in flight.
NoFault == [cls |-> "none", msg |-> <<>>]

\* Faults a call of the try body can raise: an Exception subclass, and a
\* BaseException that is not an Exception (SystemExit, KeyboardInterrupt).
Faults ==
    { [cls |-> "Exception", msg |-> <<"NotFound">>],
      [cls |-> "BaseException", msg |-> <<"SystemExit">>] }

\* Faults insert_rows_json can raise.
InsertFaults == { [cls |-> "Exception", msg |-> <<"ServiceUnavailable">>] }

\* The error a failed load job carries; result() raises it.
JobFault == [cls |-> "Exception", msg |-> <<"BadRequest">>]

\* Values of load_job.errors of a job that reached DONE.
JobErrors == {None, <<"invalid">>}

\* Values insert_rows_json returns.
InsertErrors == {<<>>, <<"rowerr">>}

A_csv == <<"a", ".", "c", "s", "v">>
A_txt == <<"a", ".", "t", "x", "t">>
Orders_2024_csv ==
    <<"o", "r", "d", "e", "r", "s", " ", "2", "0", "2", "4", ".", "c", "s", "v">>

\* Object names of the notifications of the handler runs.
FileNames == {A_csv, A_txt, Orders_2024_csv}

\* Every object name of at most MaxLen characters.
BoundedNames == UNION {[1..n -> Alphabet] : n \in 1..MaxLen}

Bucket == <<"b", "1">>

Events == {[bucket |-> Bucket, name |-> n] : n \in FileNames}

BoundedEvents == {[bucket |-> Bucket, name |-> n] : n \in BoundedNames \cup FileNames}

\* Rows a destination table holds before any load.
PriorRows == {<<"prior">>}

----------------------------------------------------------------------------
(* Pure functions of the handler *)

\* str(x) inside an f-string: None prints as "None".
Str(x) == IF x = None THEN <<"N", "o", "n", "e">> ELSE x

\* str(e) of an exception: its message.
StrFault(f) == f.msg

\* str(errors) of a list of errors.
StrErrors(errs) == <<"[">> \o errs \o <<"]">>

\* Python truthiness of None or a list.
Truthy(x) == x # None /\ x # <<>>

RECURSIVE Split(_, _)
\* s.split(sep): the segments of s between occurrences of sep.
Split(s, sep) ==
    IF \A k \in 1..Len(s) : s[k] # sep
    THEN <<s>>
    ELSE LET d == CHOOSE k \in 1..Len(s) :
                      s[k] = sep /\ \A j \in 1..(k - 1) : s[j] # sep
         IN  <<SubSeq(s, 1, d - 1)>> \o Split(SubSeq(s, d + 1, Len(s)), sep)

\* s.replace(old, new) for single characters.
Replace(s, old, new) == [k \in 1..Len(s) |-> IF s[k] = old THEN new ELSE s[k]]

\* Mutant of DeriveTableName: the spaces are kept.
DeriveTableNameKeepSpaces(file_name) == Split(file_name, ".")[1]

\* Lines 50-51: table_name.
DeriveTableName(file_name) == Replace(Split(file_name, ".")[1], " ", "_")

\* Line 54: table_ref.
FormatTableRef(project, dataset, table_name) ==
    Str(project) \o <<".">> \o Str(dataset) \o <<".", "1", "0", "0", "_">> \o table_name

\* Line 27: audit_table_ref.
FormatAuditRef(project, dataset, audit) ==
    Str(project) \o <<".">> \o Str(dataset) \o <<".">> \o Str(audit)

\* Line 57: uri.
FormatUri(bucket_name, file_name) ==
    <<"g", "s", ":", "/", "/">> \o bucket_name \o <<"/">> \o file_name

\* Lines 60-69: event_metadata as initialised.
InitialMetadata(i, ev) ==
    [event_id |-> i, bucket_name |-> ev.bucket, file_name |-> ev.name,
     status |-> "Pending", error_message |-> None]

\* No event_metadata yet.
NoMetadata == [event_id |-> 0, bucket_name |-> None, file_name |-> None,
               status |-> "none", error_message |-> None]

NoEvent == [bucket |-> None, name |-> None]

NoJob == [state |-> "none", errors |-> None]

\* Mutant of CheckJobErrors: the message is recorded on both branches.
CheckJobErrorsAlwaysMessage(md, errs) ==
    IF Truthy(errs)
    THEN [md EXCEPT !.status = "Failure", !.error_message = StrErrors(errs)]
    ELSE [md EXCEPT !.status = "Success", !.error_message = Str(errs)]

\* Lines 99-105: the check of load_job.errors.
CheckJobErrors(md, errs) ==
    IF Truthy(errs)
    THEN [md EXCEPT !.status = "Failure", !.error_message = StrErrors(errs)]
    ELSE [md EXCEPT !.status = "Success"]

\* Lines 108-112: "except Exception as e" catches only Exception subclasses.
ExceptClause(md, f) ==
    IF f.cls = "Exception"
    THEN [md EXCEPT !.status = "Failure", !.error_message = StrFault(f)]
    ELSE md

\* Mutant of WriteDisposition: WRITE_APPEND.
WriteAppend(old, new) == old \cup new

\* Line 79: write_disposition = WRITE_TRUNCATE, the loaded rows replace the table's.
WriteDisposition(old, new) == new

\* The rows of a destination table.
Rows(ref) == IF ref \in DOMAIN table THEN table[ref] ELSE PriorRows

----------------------------------------------------------------------------
(* State *)

EnvValues(v) == {v, None}

Init ==
    /\ PROJECT_ID \in EnvValues(<<"p">>)
    /\ DATASET_ID \in EnvValues(<<"d">>)
    /\ AUDIT_TABLE_ID \in EnvValues(<<"a", "u", "d", "i", "t">>)
    /\ pc = [i \in Invocations |-> "idle"]
    /\ event = [i \in Invocations |-> NoEvent]
    /\ table_ref = [i \in Invocations |-> None]
    /\ uri = [i \in Invocations |-> None]
    /\ event_metadata = [i \in Invocations |-> NoMetadata]
    /\ load_job = [i \in Invocations |-> NoJob]
    /\ load_fault = [i \in Invocations |-> NoFault]
    /\ fault_site = [i \in Invocations |-> "none"]
    /\ raised = [i \in Invocations |-> NoFault]
    /\ audit_args = [i \in Invocations |-> <<>>]
    /\ insert_calls = {}
    /\ audit_table = {}
    /\ table = <<>>
    /\ commits = <<>>
    /\ raced = FALSE

----------------------------------------------------------------------------
(* load_data_to_bigquery *)

\* Lines 48-80: the locals, up to the try statement.
Invoke(i, ev) ==
    /\ pc[i] = "idle"
    /\ event' = [event EXCEPT ![i] = ev]
    /\ table_ref' = [table_ref EXCEPT
           ![i] = FormatTableRef(PROJECT_ID, DATASET_ID, DeriveTableName(ev.name))]
    /\ uri' = [uri EXCEPT ![i] = FormatUri(ev.bucket, ev.name)]
    /\ event_metadata' = [event_metadata EXCEPT ![i] = InitialMetadata(i, ev)]
    /\ pc' = [pc EXCEPT ![i] = "submit"]
    /\ UNCHANGED <<envVars, load_job, load_fault, fault_site, raised, audit_args, insert_calls,
                   audit_table, table, commits, raced>>

\* Mutant of PcAfterTry: the audit call sits after the try statement, not in
\* a finally clause, so a raised fault leaves the function without it.
PcAfterTryNoFinally(f) == IF f = NoFault THEN "finally" ELSE "done"

\* Lines 114-116: the finally clause runs whether or not a fault is in flight.
PcAfterTry(f) == "finally"

\* A call inside the try body raises f: lines 108-112, then the finally clause.
Raise(i, f) ==
    /\ event_metadata' = [event_metadata EXCEPT ![i] = ExceptClause(@, f)]
    /\ load_fault' = [load_fault EXCEPT ![i] = f]
    /\ fault_site' = [fault_site EXCEPT ![i] = pc[i]]
    /\ raised' = [raised EXCEPT ![i] = f]
    /\ pc' = [pc EXCEPT ![i] = PcAfterTry(f)]

\* Lines 84-88: load_table_from_uri returns the submitted job.
SubmitReturns(i) ==
    /\ pc[i] = "submit"
    /\ load_job' = [load_job EXCEPT ![i] = [state |-> "running", errors |-> None]]
    /\ pc' = [pc EXCEPT ![i] = "wait"]
    /\ UNCHANGED <<envVars, event, table_ref, uri, event_metadata, load_fault, fault_site, raised,
                   audit_args, insert_calls, audit_table, table, commits, raced>>

\* Lines 84-88: load_table_from_uri raises.
SubmitRaises(i, f) ==
    /\ pc[i] = "submit"
    /\ Raise(i, f)
    /\ UNCHANGED <<envVars, event, table_ref, uri, load_job, audit_args, insert_calls,
                   audit_table, table, commits, raced>>

\* Line 91: load_job.result() returns once the job is DONE without an error result.
WaitReturns(i) ==
    /\ pc[i] = "wait"
    /\ load_job[i].state = "done"
    /\ pc' = [pc EXCEPT ![i] = "lookup"]
    /\ UNCHANGED <<envVars, event, table_ref, uri, event_metadata, load_job, load_fault, fault_site,
                   raised, audit_args, insert_calls, audit_table, table, commits, raced>>

\* Line 91: load_job.result() raises: the error of a failed job, or a fault
\* of the wait itself whatever the job's state.
WaitRaises(i, f) ==
    /\ pc[i] = "wait"
    /\ f = JobFault => load_job[i].state = "failed"
    /\ Raise(i, f)
    /\ UNCHANGED <<envVars, event, table_ref, uri, load_job, audit_args, insert_calls,
                   audit_table, table, commits, raced>>

\* Lines 95-105: get_table returns, then load_job.errors is checked.
LookupReturns(i) ==
    /\ pc[i] = "lookup"
    /\ event_metadata' = [event_metadata EXCEPT
           ![i] = CheckJobErrors(@, load_job[i].errors)]
    /\ pc' = [pc EXCEPT ![i] = PcAfterTry(NoFault)]
    /\ UNCHANGED <<envVars, event, table_ref, uri, load_job, load_fault, fault_site, raised,
                   audit_args, insert_calls, audit_table, table, commits, raced>>

\* Line 95: get_table raises.
LookupRaises(i, f) ==
    /\ pc[i] = "lookup"
    /\ Raise(i, f)
    /\ UNCHANGED <<envVars, event, table_ref, uri, load_job, audit_args, insert_calls,
                   audit_table, table, commits, raced>>

----------------------------------------------------------------------------
(* log_event_to_audit_table, called from the finally clause *)

\* Lines 27-33: the insert_rows_json call made for event_metadata.
InsertCall(i) ==
    [ref |-> FormatAuditRef(PROJECT_ID, DATASET_ID, AUDIT_TABLE_ID),
     row |-> event_metadata[i]]

\* Lines 116, 27-35: insert_rows_json returns errs; a non-empty errs is logged.
LogReturns(i, errs) ==
    /\ pc[i] = "finally"
    /\ audit_args' = [audit_args EXCEPT ![i] = Append(@, event_metadata[i])]
    /\ insert_calls' = insert_calls \cup {InsertCall(i)}
    /\ audit_table' = IF Truthy(errs) THEN audit_table
                      ELSE audit_table \cup {event_metadata[i]}
    /\ pc' = [pc EXCEPT ![i] = "done"]
    /\ UNCHANGED <<envVars, event, table_ref, uri, event_metadata, load_job, load_fault, fault_site,
                   raised, table, commits, raced>>

\* Lines 116, 33: insert_rows_json raises f; nothing catches it, and raised
\* inside the finally clause it replaces the fault in flight.
LogRaises(i, f) ==
    /\ pc[i] = "finally"
    /\ audit_args' = [audit_args EXCEPT ![i] = Append(@, event_metadata[i])]
    /\ insert_calls' = insert_calls \cup {InsertCall(i)}
    /\ raised' = [raised EXCEPT ![i] = f]
    /\ pc' = [pc EXCEPT ![i] = "done"]
    /\ UNCHANGED <<envVars, event, table_ref, uri, event_metadata, load_job, load_fault,
                   fault_site, audit_table, table, commits, raced>>

----------------------------------------------------------------------------
(* The warehouse's side of a load job submitted at lines 84-88 *)

\* The job reaches DONE: its rows are written to the destination table
\* under the configured write disposition; errs becomes load_job.errors.
JobCommits(i, errs) ==
    /\ load_job[i].state = "running"
    /\ load_job' = [load_job EXCEPT ![i] = [state |-> "done", errors |-> errs]]
    /\ table' = [r \in DOMAIN table \cup {table_ref[i]} |->
                    IF r = table_ref[i]
                    THEN WriteDisposition(Rows(r), {uri[i]})
                    ELSE table[r]]
    /\ commits' = Append(commits, i)
    /\ raced' = (raced \/ \E j \in Invocations \ {i} :
                              /\ load_job[j].state = "running"
                              /\ table_ref[j] = table_ref[i])
    /\ UNCHANGED <<envVars, pc, event, table_ref, uri, event_metadata, load_fault, fault_site,
                   raised, audit_args, insert_calls, audit_table>>

\* The job ends with an error result: nothing is written.
JobFails(i) ==
    /\ load_job[i].state = "running"
    /\ load_job' = [load_job EXCEPT
           ![i] = [state |-> "failed", errors |-> <<"invalid">>]]
    /\ UNCHANGED <<envVars, pc, event, table_ref, uri, event_metadata, load_fault, fault_site,
                   raised, audit_args, insert_calls, audit_table, table, commits, raced>>

----------------------------------------------------------------------------
(* Specifications *)

Next ==
    \E i \in Invocations :
        \/ \E ev \in Events : Invoke(i, ev)
        \/ SubmitReturns(i)
        \/ \E f \in Faults : SubmitRaises(i, f)
        \/ WaitReturns(i)
        \/ \E f \in Faults \cup {JobFault} : WaitRaises(i, f)
        \/ LookupReturns(i)
        \/ \E f \in Faults : LookupRaises(i, f)
        \/ \E errs \in InsertErrors : LogReturns(i, errs)
        \/ \E f \in InsertFaults : LogRaises(i, f)
        \/ \E errs \in JobErrors : JobCommits(i, errs)
        \/ JobFails(i)

Spec == Init /\ [][Next]_vars

\* The derivation of the destination table for every enumerated object name.
NextNames == \E ev \in BoundedEvents : Invoke(1, ev)

SpecNames == Init /\ [][NextNames]_vars

----------------------------------------------------------------------------
(* Properties *)

\* The audit record of a finished invocation with the given status and message.
FinalRecord(i, status, message) ==
    [event_id |-> i, bucket_name |-> event[i].bucket, file_name |-> event[i].name,
     status |-> status, error_message |-> message]

\* result() returned in invocation i: the try body got past the wait.
WaitReturned(i) == pc[i] \in {"lookup", "finally", "done"} /\ fault_site[i] \in {"none", "lookup"}

\* C1: in every invocation log_event_to_audit_table is never called twice, and
\* it has been called exactly once by the time the handler returns or the
\* fault escapes, on every exit path.
AuditExactlyOnce ==
    \A i \in Invocations :
        /\ Len(audit_args[i]) <= 1
        /\ pc[i] = "done" => Len(audit_args[i]) = 1

\* C1 witness: one invocation left with a fault raised by the load, the other
\* returned after a job that reported errors, each with one audit call.
AuditExactlyOnceWitness ==
    /\ pc[1] = "done" /\ load_fault[1] # NoFault /\ Len(audit_args[1]) = 1
    /\ pc[2] = "done" /\ load_fault[2] = NoFault /\ Len(audit_args[2]) = 1
    /\ Truthy(load_job[2].errors)

\* C2: a fault raised by insert_rows_json never propagates: the caller of a
\* finished invocation observes the fault the load raised, or a normal return
\* when the load raised none.
AuditFaultNeverPropagates ==
    \A i \in Invocations : pc[i] = "done" => raised[i] = load_fault[i]

\* C3: when load_table_from_uri or result() raised a fault, the one record
\* passed to the audit logger has status "Failure" and the fault's string form
\* as error_message, and the caller observes that same fault.
LoadFaultRecordedAndPropagated ==
    \A i \in Invocations :
        (pc[i] = "done" /\ fault_site[i] \in {"submit", "wait"}) =>
            /\ audit_args[i] = <<FinalRecord(i, "Failure", StrFault(load_fault[i]))>>
            /\ raised[i] = load_fault[i]

\* C4: when result() returned and the job reports errors, the one record passed
\* to the audit logger has status "Failure" and the string form of the errors
\* as error_message, and the handler returns normally.
JobErrorsRecordedNotRaised ==
    \A i \in Invocations :
        (pc[i] = "done" /\ WaitReturned(i) /\ Truthy(load_job[i].errors)) =>
            /\ audit_args[i] = <<FinalRecord(i, "Failure", StrErrors(load_job[i].errors))>>
            /\ raised[i] = NoFault

NoPendingAudited ==
    \A i \in Invocations : \A k \in 1..Len(audit_args[i]) :
        audit_args[i][k].status \in {"Success", "Failure"}

\* Index of the first dot of a name, Len + 1 when it has none.
FirstDot(n) ==
    IF \E k \in 1..Len(n) : n[k] = "."
    THEN CHOOSE k \in 1..Len(n) : n[k] = "." /\ \A j \in 1..(k - 1) : n[j] # "."
    ELSE Len(n) + 1

\* The table name the destination reference ends with, after "100_".
TableNameOf(ref, project, dataset) ==
    SubSeq(ref, Len(Str(project)) + Len(Str(dataset)) + 7, Len(ref))

\* C7: the derived table name is the part of the object name before its first
\* dot (all of it when it has none) with each space replaced by an underscore,
\* and the destination is {project}.{dataset}.100_{table_name}; "orders 2024.csv"
\* under project p and dataset d gives p.d.100_orders_2024.
TableNameDerivation ==
    \A i \in Invocations :
        pc[i] # "idle" =>
            LET n == event[i].name
                ref == table_ref[i]
                t == TableNameOf(ref, PROJECT_ID, DATASET_ID)
                head == Str(PROJECT_ID) \o <<".">> \o Str(DATASET_ID)
            IN  /\ Len(t) = FirstDot(n) - 1
                /\ \A k \in 1..Len(t) : t[k] = IF n[k] = " " THEN "_" ELSE n[k]
                /\ SubSeq(ref, 1, Len(head)) = head
                /\ SubSeq(ref, Len(head) + 1, Len(head) + 5) = <<".", "1", "0", "0", "_">>
                /\ (n = Orders_2024_csv /\ PROJECT_ID = <<"p">> /\ DATASET_ID = <<"d">>) =>
                       ref = <<"p", ".", "d", ".", "1", "0", "0", "_",
                               "o", "r", "d", "e", "r", "s", "_", "2", "0", "2", "4">>

\* C7 witness: a name with a space before its first dot and a second dot.
TableNameDerivationWitness ==
    /\ pc[1] = "submit"
    /\ event[1].name = <<" ", ".", ".">>
    /\ PROJECT_ID = <<"p">> /\ DATASET_ID = <<"d">>
    /\ table_ref[1] = <<"p", ".", "d", ".", "1", "0", "0", "_", "_">>

\* C8: with PROJECT_ID, DATASET_ID or AUDIT_TABLE_ID unset, no load job is
\* submitted and no audit insert is attempted.
FailFastOnMissingEnv ==
    (PROJECT_ID = None \/ DATASET_ID = None \/ AUDIT_TABLE_ID = None) =>
        /\ \A i \in Invocations : load_job[i].state = "none"
        /\ insert_calls = {}

SuccessOnlyIfAllReturned ==
    \A i \in Invocations :
        pc[i] = "done" =>
            /\ audit_args[i][1].status = "Success" =>
                   fault_site[i] = "none" /\ ~Truthy(load_job[i].errors)
            /\ fault_site[i] = "lookup" =>
                   /\ audit_args[i] = <<FinalRecord(i, "Failure", StrFault(load_fault[i]))>>
                   /\ raised[i] = load_fault[i]

----------------------------------------------------------------------------
(* What the handler does guarantee around the divergences of C2-C4, C6, C10 *)

\* The caller observes the fault the load raised, or the fault insert_rows_json
\* raised in its place.
CallerObservesLoadOrInsertFault ==
    \A i \in Invocations :
        pc[i] = "done" => raised[i] = load_fault[i] \/ raised[i] \in InsertFaults

\* A fault of the try body that is an Exception is recorded as "Failure" with
\* its string form, whichever call raised it.
CaughtFaultRecorded ==
    \A i \in Invocations :
        (pc[i] = "done" /\ load_fault[i].cls = "Exception") =>
            audit_args[i] = <<FinalRecord(i, "Failure", StrFault(load_fault[i]))>>

\* Job errors are recorded as "Failure" with their string form once the lookup
\* has returned too.
JobErrorsRecordedWhenLookupReturns ==
    \A i \in Invocations :
        (pc[i] = "done" /\ fault_site[i] = "none" /\ Truthy(load_job[i].errors)) =>
            audit_args[i] = <<FinalRecord(i, "Failure", StrErrors(load_job[i].errors))>>

\* A "Pending" record reaches the audit logger only with a fault in flight that
\* "except Exception" does not catch.
PendingOnlyOnUncaughtFault ==
    \A i \in Invocations : \A k \in 1..Len(audit_args[i]) :
        audit_args[i][k].status = "Pending" <=> load_fault[i].cls = "BaseException"

\* "Success" is recorded only if every call of the try body returned and the
\* job reported no errors.
SuccessImpliesAllReturned ==
    \A i \in Invocations : \A k \in 1..Len(audit_args[i]) :
        audit_args[i][k].status = "Success" =>
            fault_site[i] = "none" /\ ~Truthy(load_job[i].errors)
====
